---- MODULE Spec2Model ----
(***************************************************************************)
(* Model of build_vsix.py: the encoding of a theme configuration into the  *)
(* registry blobs of extension.pkgdef and the run of main around it.       *)
(*                                                                         *)
(* Text is a sequence of characters; a character is a one-character string *)
(* (a non-ASCII character is written as its code point, "U+00E4").  Bytes  *)
(* are the integers 0..255.  A Python call returns a record: ok = TRUE     *)
(* with the value in val, or ok = FALSE with the raised ValueError's       *)
(* message in err and the text the message quotes in arg.                  *)
(***************************************************************************)
EXTENDS Integers, Sequences, FiniteSets, TLC

\* Python's None where a text is expected: a value that is no text
None == <<"None">>

\* ------------------------------------------------------------------------
\* Characters
\* ------------------------------------------------------------------------
HexLower == <<"0","1","2","3","4","5","6","7","8","9","a","b","c","d","e","f">>
HexUpper == <<"0","1","2","3","4","5","6","7","8","9","A","B","C","D","E","F">>

\* the character class [0-9a-fA-F] of the regular expressions
IsHex(c) == \E i \in 1..16 : HexLower[i] = c \/ HexUpper[i] = c

HexVal(c) == (CHOOSE i \in 1..16 : HexLower[i] = c \/ HexUpper[i] = c) - 1

\* printable ASCII in two runs: codes 32..95 and codes 97..126
Printable32 ==
  << " ","!","\"","#","$","%","&","'","(",")","*","+",",","-",".","/",
     "0","1","2","3","4","5","6","7","8","9",":",";","<","=",">","?",
     "@","A","B","C","D","E","F","G","H","I","J","K","L","M","N","O",
     "P","Q","R","S","T","U","V","W","X","Y","Z","[","\\","]","^","_" >>

Printable97 ==
  << "a","b","c","d","e","f","g","h","i","j","k","l","m","n","o",
     "p","q","r","s","t","u","v","w","x","y","z","{","|","}","~" >>

\* characters outside ASCII: a-umlaut and ARABIC-INDIC DIGIT ONE
NonAscii == {"U+00E4", "U+0661"}

IsAscii(c) == c \notin NonAscii

\* code of an ASCII character
Ord(c) ==
  IF c = "\t" THEN 9
  ELSE IF c = "\n" THEN 10
  ELSE IF c = "\r" THEN 13
  ELSE IF \E i \in 1..Len(Printable32) : Printable32[i] = c
  THEN 31 + (CHOOSE i \in 1..Len(Printable32) : Printable32[i] = c)
  ELSE 96 + (CHOOSE i \in 1..Len(Printable97) : Printable97[i] = c)

\* what str.strip() removes
Whitespace == {" ", "\t", "\n", "\r"}

\* ------------------------------------------------------------------------
\* Python string and integer primitives
\* ------------------------------------------------------------------------
RECURSIVE lstrip(_, _)
lstrip(s, chars) ==
  IF s # <<>> /\ Head(s) \in chars THEN lstrip(Tail(s), chars) ELSE s

RECURSIVE rstrip(_, _)
rstrip(s, chars) ==
  IF s # <<>> /\ s[Len(s)] \in chars
  THEN rstrip(SubSeq(s, 1, Len(s) - 1), chars) ELSE s

\* str.strip(chars): every leading and trailing character of the set goes
strip(s, chars) == rstrip(lstrip(s, chars), chars)

\* str.split(sep) for a one-character separator
RECURSIVE split(_, _)
split(s, sep) ==
  IF \A i \in 1..Len(s) : s[i] # sep THEN <<s>>
  ELSE LET i == CHOOSE j \in 1..Len(s) :
                  s[j] = sep /\ \A m \in 1..(j - 1) : s[m] # sep
       IN <<SubSeq(s, 1, i - 1)>> \o split(SubSeq(s, i + 1, Len(s)), sep)

RECURSIVE join(_, _)
join(parts, sep) ==
  IF parts = <<>> THEN <<>>
  ELSE IF Len(parts) = 1 THEN parts[1]
  ELSE parts[1] \o sep \o join(Tail(parts), sep)

\* re.fullmatch(r"[0-9a-fA-F]{n}", s)
fullmatch_hex(n, s) == Len(s) = n /\ \A i \in 1..n : IsHex(s[i])

\* value of a digit for int(): the hex digits and the Unicode decimal digits
PyDigitVal(c) ==
  IF IsHex(c) THEN HexVal(c) ELSE IF c = "U+0661" THEN 1 ELSE -1

\* digits of an int() literal: digits with single underscores between them
PyDigitsOk(d) ==
  /\ d # <<>>
  /\ d[1] # "_"
  /\ d[Len(d)] # "_"
  /\ \A i \in 1..Len(d) : d[i] = "_" \/ PyDigitVal(d[i]) >= 0
  /\ \A i \in 1..(Len(d) - 1) : ~(d[i] = "_" /\ d[i + 1] = "_")

RECURSIVE PyDigitsVal(_)
PyDigitsVal(d) ==
  IF d = <<>> THEN 0
  ELSE IF d[Len(d)] = "_" THEN PyDigitsVal(SubSeq(d, 1, Len(d) - 1))
  ELSE 16 * PyDigitsVal(SubSeq(d, 1, Len(d) - 1)) + PyDigitVal(d[Len(d)])

\* int(s, 16): surrounding whitespace, one sign, an 0x prefix, then digits.
\* Used on texts of at most two characters, so the value fits any width.
int16(s) ==
  LET t      == strip(s, Whitespace)
      signed == t # <<>> /\ t[1] \in {"+", "-"}
      u      == IF signed THEN Tail(t) ELSE t
      pre    == Len(u) >= 2 /\ u[1] = "0" /\ u[2] \in {"x", "X"}
      v      == IF pre THEN SubSeq(u, 3, Len(u)) ELSE u
      d      == IF pre /\ v # <<>> /\ v[1] = "_" THEN Tail(v) ELSE v
  IN IF ~PyDigitsOk(d) THEN [ok |-> FALSE, val |-> 0]
     ELSE [ok |-> TRUE,
           val |-> IF signed /\ t[1] = "-" THEN 0 - PyDigitsVal(d)
                   ELSE PyDigitsVal(d)]

\* n.to_bytes(size, "little") for 0 <= n < 256^size
RECURSIVE to_bytes_little(_, _)
to_bytes_little(n, size) ==
  IF size = 0 THEN <<>>
  ELSE <<n % 256>> \o to_bytes_little(n \div 256, size - 1)

\* bytes.fromhex(h) for an even number of hex digits
RECURSIVE fromhex(_)
fromhex(h) ==
  IF h = <<>> THEN <<>>
  ELSE <<16 * HexVal(h[1]) + HexVal(h[2])>> \o fromhex(SubSeq(h, 3, Len(h)))

\* the bytes in written order, the most significant first
hex_to_bytes_big(h) == fromhex(h)

\* int(h, 16).to_bytes(Len(h) \div 2, "little") for an even number of hex
\* digits: the least significant byte, the last pair of digits, comes first.
\* Worked on the digits: a 32-bit value does not fit the integers used here.
RECURSIVE hex_to_bytes_little(_)
hex_to_bytes_little(h) ==
  IF h = <<>> THEN <<>>
  ELSE <<16 * HexVal(h[Len(h) - 1]) + HexVal(h[Len(h)])>>
       \o hex_to_bytes_little(SubSeq(h, 1, Len(h) - 2))

Return(v) == [ok |-> TRUE, val |-> v, err |-> "", arg |-> <<>>]
Raise(msg, quoted) == [ok |-> FALSE, val |-> <<>>, err |-> msg, arg |-> quoted]

\* ------------------------------------------------------------------------
\* encode_name
\* ------------------------------------------------------------------------
RECURSIVE ascii_bytes(_)
ascii_bytes(name) ==
  IF name = <<>> THEN <<>> ELSE <<Ord(Head(name))>> \o ascii_bytes(Tail(name))

encode_name(name) ==
  IF \E i \in 1..Len(name) : ~IsAscii(name[i])
  THEN Raise("Entry name must be ASCII", name)
  ELSE Return(to_bytes_little(Len(name), 4) \o ascii_bytes(name))

\* ------------------------------------------------------------------------
\* parse_value
\* ------------------------------------------------------------------------
\* re.fullmatch(r"([0-9a-fA-F]{2})x([0-9a-fA-F]{8})", value)
flag_mask_match(value) ==
  /\ Len(value) = 11
  /\ fullmatch_hex(2, SubSeq(value, 1, 2))
  /\ value[3] = "x"
  /\ fullmatch_hex(8, SubSeq(value, 4, 11))

\* only the Empty tag refused
reserved_flag_zero_only(flag) == flag = 0

\* no flag refused
reserved_flag_never(flag) == FALSE

reserved_flag(flag) == flag \in {0, 1}

color_length_ok(n) == n \in {6, 8}

parse_color(value) ==
  LET hex == IF value # <<>> /\ value[1] = "#" THEN Tail(value) ELSE value
  IN IF ~color_length_ok(Len(hex))
     THEN Raise("Color must be 6 or 8 hex digits", hex)
     ELSE LET r == int16(SubSeq(hex, 1, 2))
              g == int16(SubSeq(hex, 3, 4))
              b == int16(SubSeq(hex, 5, 6))
              a == IF Len(hex) = 6 THEN [ok |-> TRUE, val |-> 255]
                   ELSE int16(SubSeq(hex, 7, 8))
          IN IF ~(r.ok /\ g.ok /\ b.ok /\ a.ok)
             THEN Raise("Invalid color hex", hex)
             ELSE IF \E x \in {r.val, g.val, b.val, a.val} : x \notin 0..255
             THEN Raise("bytes must be in range(0, 256)", <<>>)
             ELSE Return(<<1, r.val, g.val, b.val, a.val>>)

parse_value(value) ==
  IF value = None THEN Return(<<0>>)
  ELSE LET v == strip(value, Whitespace)
       IN IF flag_mask_match(v)
          THEN LET flag == 16 * HexVal(v[1]) + HexVal(v[2])
               IN IF reserved_flag(flag)
                  THEN Raise("Generic flag+mask not allowed for 0x00/0x01", v)
                  ELSE Return(to_bytes_little(flag, 1)
                              \o hex_to_bytes_little(SubSeq(v, 4, 11)))
          ELSE parse_color(v)

\* ------------------------------------------------------------------------
\* guid_parts, guid_str_to_bytes
\* ------------------------------------------------------------------------
GroupLens == <<8, 4, 4, 4, 12>>

Braces == {"{", "}"}

guid_unwrap(guid) == strip(strip(guid, Whitespace), Braces)

guid_parts(guid) ==
  LET p == split(guid_unwrap(guid), "-")
  IN IF Len(p) # 5 THEN Raise("Invalid GUID", guid)
     ELSE IF \E i \in 1..5 : ~fullmatch_hex(GroupLens[i], p[i])
     THEN Raise("Invalid GUID", guid)
     ELSE Return(p)

\* no group swapped
guid_encode_raw(p) ==
  fromhex(p[1]) \o fromhex(p[2]) \o fromhex(p[3]) \o fromhex(p[4]) \o fromhex(p[5])

guid_encode(p) ==
  hex_to_bytes_little(p[1]) \o hex_to_bytes_little(p[2])
  \o hex_to_bytes_little(p[3]) \o fromhex(p[4]) \o fromhex(p[5])

guid_str_to_bytes(guid) ==
  LET p == guid_parts(guid)
  IN IF ~p.ok THEN p ELSE Return(guid_encode(p.val))

\* ------------------------------------------------------------------------
\* Configuration values as yaml.safe_load returns them
\* ------------------------------------------------------------------------
\* A YAML node under a section: a list of items, or a scalar text.
List(items) == [list |-> TRUE, items |-> items]
Scalar(text) == [list |-> FALSE, items |-> text]

\* A mapping keeps its keys in insertion order: a sequence of items.
Item(key, value) == [key |-> key, value |-> value]

GUID == <<"G","U","I","D">>

has_key(d, key) == \E j \in 1..Len(d) : d[j].key = key

dict_get(d, key) == d[CHOOSE j \in 1..Len(d) : d[j].key = key].value

\* the mapping without the key, the other items in their order
dict_without(d, key) == SelectSeq(d, LAMBDA it : it.key # key)

\* ------------------------------------------------------------------------
\* build_section
\* ------------------------------------------------------------------------
\* the pop done on the caller's own object
section_after_pop_shared(section) == dict_without(section, GUID)

\* sec = dict(section); sec.pop("GUID"): the caller's object afterwards.
\* The pop acts on the copy, so the caller's mapping keeps every item.
section_after_pop(section) == section

\* a list of more than two elements let through
entry_shape_lenient(entry) == entry.list /\ Len(entry.items) >= 2

entry_shape_ok(entry) == entry.list /\ Len(entry.items) = 2

\* the bytes in front of the entries, the length still the placeholder
blob_header(guid_bytes, count) ==
  to_bytes_little(0, 4) \o to_bytes_little(11, 4) \o to_bytes_little(1, 4)
  \o guid_bytes \o to_bytes_little(count, 4)

\* the length without the four bytes of the field
patch_length_exclusive(blob) ==
  to_bytes_little(Len(blob) - 4, 4) \o SubSeq(blob, 5, Len(blob))

\* blob[0:4] = len(blob).to_bytes(4, "little")
patch_length(blob) ==
  to_bytes_little(Len(blob), 4) \o SubSeq(blob, 5, Len(blob))

\* capital hex digits
hex2_upper(b) == <<HexUpper[(b \div 16) + 1], HexUpper[(b % 16) + 1]>>

\* f"{b:02x}"
hex2(b) == <<HexLower[(b \div 16) + 1], HexLower[(b % 16) + 1]>>

RECURSIVE hex_items(_)
hex_items(blob) ==
  IF blob = <<>> THEN <<>> ELSE <<hex2(Head(blob))>> \o hex_items(Tail(blob))

section_header(theme_guid, section_name) ==
  <<"[","$","R","o","o","t","K","e","y","$","\\","T","h","e","m","e","s","\\","{">> \o theme_guid \o <<"}","\\">> \o section_name \o <<"]">>

section_text(theme_guid, section_name, blob) ==
  <<"\n">> \o section_header(theme_guid, section_name)
  \o <<"\n">> \o <<"\"","D","a","t","a","\"","=","h","e","x",":">> \o join(hex_items(blob), <<",">>)

\* ------------------------------------------------------------------------
\* pkgdef_data
\* ------------------------------------------------------------------------
ThemeName == <<"O","n","e"," ","D","a","r","k">>

pkgdef_head(theme) ==
  << <<"[","$","R","o","o","t","K","e","y","$","\\","T","h","e","m","e","s","\\","{">> \o theme.guid \o <<"}","]">>,
     <<"@","=","\"">> \o ThemeName \o <<"\"">>,
     <<"\"","N","a","m","e","\"","=","\"">> \o ThemeName \o <<"\"">>,
     <<"\"","P","a","c","k","a","g","e","\"","=","\"","{">> \o theme.guid \o <<"}","\"">>,
     <<"\"","F","a","l","l","b","a","c","k","I","d","\"","=","\"","{">> \o theme.base_guid \o <<"}","\"">> >>

\* ------------------------------------------------------------------------
\* Inputs
\* ------------------------------------------------------------------------
MaxEntries == 2
MaxSections == 2

SectionNames == << <<"S","h","e","l","l">>, <<"E","n","v">>, <<"T","r","e","e">>, <<"M","e","n","u">> >>
EntryNames == << <<"F","o","o">>, <<"B","g">>, <<"C">>, <<"T","e","x","t">> >>

GoodGuid == <<"0","1","2","3","4","5","6","7","-","8","9","a","b","-","c","d","e","f","-","0","1","2","3","-","4","5","6","7","8","9","a","b","c","d","e","f">>
BracedGuid == <<"{","F","E","D","C","B","A","9","8","-","7","6","5","4","-","3","2","1","0","-","0","1","2","3","-","4","5","6","7","8","9","A","B","C","D","E","F","}">>
BadGuid == <<"0","1","2","3","4","5","6","-","8","9","a","b","-","c","d","e","f","-","0","1","2","3","-","4","5","6","7","8","9","a","b","c","d","e","f">>

\* entry values of the sections with many entries
Values == {None, <<"#","F","F","8","0","0","0">>, <<" ","0","2","x","0","0","0","0","0","0","F","F">>, <<"0","0","x","1","1","2","2","3","3","4","4">>, <<"1","2","3","4">>}

\* a value of the set beside an accepted one, in either place
Pairs ==
  {<<v, <<"f","f","8","0","0","0","A","A">>>> : v \in Values} \cup {<<None, v>> : v \in Values}

\* what the mapping may hold as its k-th entry
Entries(k) ==
  {Item(EntryNames[k], List(p)) : p \in Pairs}
  \cup {Item(EntryNames[k], Scalar(<<"#","F","F","8","0","0","0">>)),
        Item(EntryNames[k], List(<<None>>)),
        Item(EntryNames[k], List(<<None, <<"#","F","F","8","0","0","0">>, None>>)),
        Item(EntryNames[k] \o <<"U+00E4">>, List(<<None, None>>))}

RECURSIVE EntryLists(_)
EntryLists(n) ==
  IF n = 0 THEN {<<>>}
  ELSE {Append(l, e) : l \in EntryLists(n - 1), e \in Entries(n)}

\* the mappings of one section: the GUID key first, last or missing
Mappings ==
  UNION {
    {l} \cup {<<Item(GUID, Scalar(g))>> \o l : g \in {GoodGuid, BracedGuid, BadGuid}}
        \cup {l \o <<Item(GUID, Scalar(g))>> : g \in {GoodGuid, BracedGuid, BadGuid}}
    : l \in UNION {EntryLists(n) : n \in 0..MaxEntries} }

Object(items) == [dict |-> TRUE, items |-> items]

\* a section that is a list and not a mapping
NotADict == [dict |-> FALSE, items |-> <<>>]

\* the objects of the configurations with several sections
FewObjects ==
  { Object(<<Item(GUID, Scalar(GoodGuid))>>),
    Object(<<Item(GUID, Scalar(BracedGuid)),
             Item(EntryNames[1], List(<<<<"#","F","F","8","0","0","0">>, None>>))>>),
    Object(<<Item(EntryNames[1], List(<<<<"7","F","x","0","0","0","0","f","f","0","0">>, <<"0","0","0","0","0","0">>>>)),
             Item(GUID, Scalar(GoodGuid))>>),
    Object(<<Item(GUID, Scalar(BadGuid))>>),
    Object(<<Item(EntryNames[1], List(<<None, None>>))>>),
    Object(<<Item(GUID, Scalar(GoodGuid)),
             Item(EntryNames[1], List(<<None, <<"0","1","x","A","A","B","B","C","C","D","D">>>>))>>),
    NotADict }

ObjectIds == {1, 2}

RECURSIVE SectionLists(_)
SectionLists(n) ==
  IF n = 0 THEN {<<>>}
  ELSE {Append(l, [name |-> SectionNames[n], ref |-> r]) :
          l \in SectionLists(n - 1), r \in ObjectIds}

Config(guid, base_guid, sections) ==
  [guid |-> guid, base_guid |-> base_guid, sections |-> sections]

NoConfig == Config(<<>>, <<>>, <<>>)

\* ------------------------------------------------------------------------
\* State
\* ------------------------------------------------------------------------
VARIABLES
  pc,       \* where the run is: a line of main, or of a function it called
  config,   \* the loaded configuration: GUID, BaseGUID, Sections
  heap,     \* the mapping objects the sections of config refer to
  theme,    \* main's theme.guid and theme.base_guid
  data,     \* pkgdef_data's list of lines
  i,        \* the section pkgdef_data is at
  sec,      \* build_section's copy of the mapping, GUID popped
  k,        \* the entry build_section is at
  blob,     \* build_section's bytearray
  err,      \* the ValueError that ended the run
  pkgdef,   \* the text written to extension.pkgdef
  vsix,     \* whether the archive was written
  call      \* a single call of a function: its name, argument and result

vars == <<pc, config, heap, theme, data, i, sec, k, blob, err, pkgdef, vsix, call>>

NoError == [err |-> "", arg |-> <<>>]
NoTheme == [guid |-> <<>>, base_guid |-> <<>>]
NoCall == [fn |-> "", arg |-> <<>>, ret |-> Return(<<>>)]

Idle ==
  /\ theme = NoTheme
  /\ data = <<>>
  /\ i = 0
  /\ sec = <<>>
  /\ k = 0
  /\ blob = <<>>
  /\ err = NoError
  /\ pkgdef = <<>>
  /\ vsix = FALSE

\* one section with many entries
InitEntries ==
  \E m \in Mappings :
    /\ heap = <<Object(m)>>
    /\ config = Config(GoodGuid, GoodGuid,
                       <<[name |-> SectionNames[1], ref |-> 1]>>)

\* several sections, two of which may be the same object (a YAML alias)
InitSections ==
  /\ heap \in [ObjectIds -> FewObjects]
  /\ \E g \in {GoodGuid, BracedGuid, BadGuid}, b \in {BracedGuid, BadGuid} :
     \E l \in UNION {SectionLists(n) : n \in 0..MaxSections} :
       config = Config(g, b, l)

Init ==
  /\ pc = "main"
  /\ call = NoCall
  /\ Idle
  /\ (InitEntries \/ InitSections)

\* ------------------------------------------------------------------------
\* main, pkgdef_data and build_section, step by step
\* ------------------------------------------------------------------------
\* a ValueError leaves every frame: nothing is returned and nothing written
raise(r) ==
  /\ pc' = "failed"
  /\ err' = [err |-> r.err, arg |-> r.arg]

\* main: theme = SimpleNamespace(guid = "-".join(guid_parts(...)), ...)
MainTheme ==
  /\ pc = "main"
  /\ LET g == guid_parts(config.guid)
         b == guid_parts(config.base_guid)
     IN IF ~g.ok THEN raise(g) /\ UNCHANGED theme
        ELSE IF ~b.ok THEN raise(b) /\ UNCHANGED theme
        ELSE /\ theme' = [guid |-> join(g.val, <<"-">>),
                          base_guid |-> join(b.val, <<"-">>)]
             /\ pc' = "pkgdef_data"
             /\ UNCHANGED err
  /\ UNCHANGED <<config, heap, data, i, sec, k, blob, pkgdef, vsix, call>>

\* pkgdef_data: the lines of the theme's own key
PkgdefHead ==
  /\ pc = "pkgdef_data"
  /\ data' = pkgdef_head(theme)
  /\ i' = 1
  /\ pc' = "sections"
  /\ UNCHANGED <<config, heap, theme, sec, k, blob, err, pkgdef, vsix, call>>

\* build_section up to the entry loop: the checks of the mapping, the copy,
\* the header of the blob
SectionBegin ==
  /\ pc = "sections"
  /\ i <= Len(config.sections)
  /\ LET name    == config.sections[i].name
         ref     == config.sections[i].ref
         section == heap[ref]
     IN IF ~section.dict
        THEN /\ raise(Raise("must map names to 2-element lists", name))
             /\ blob' = <<>> /\ sec' = <<>> /\ k' = 0
             /\ UNCHANGED heap
        ELSE IF ~has_key(section.items, GUID)
        THEN /\ raise(Raise("does not have a 'GUID' field", name))
             /\ blob' = <<>> /\ sec' = <<>> /\ k' = 0
             /\ UNCHANGED heap
        ELSE LET g == guid_str_to_bytes(dict_get(section.items, GUID).items)
             IN /\ sec' = dict_without(section.items, GUID)
                /\ heap' = [heap EXCEPT ![ref].items = section_after_pop(@)]
                /\ k' = 1
                /\ IF ~g.ok
                   THEN /\ raise(g)
                        /\ blob' = to_bytes_little(0, 4)
                                   \o to_bytes_little(11, 4)
                                   \o to_bytes_little(1, 4)
                   ELSE /\ blob' = blob_header(g.val, Len(sec'))
                        /\ pc' = "entries"
                        /\ UNCHANGED err
  /\ UNCHANGED <<config, theme, data, i, pkgdef, vsix, call>>

\* build_section: one turn of the loop over the entries
SectionEntry ==
  /\ pc = "entries"
  /\ k <= Len(sec)
  /\ LET name  == sec[k].key
         entry == sec[k].value
     IN IF ~entry_shape_ok(entry)
        THEN raise(Raise("must be a 2-element list", name)) /\ UNCHANGED <<blob, k>>
        ELSE LET n == encode_name(name)
                 p == parse_value(entry.items[1])
                 s == parse_value(entry.items[2])
             IN IF ~n.ok THEN raise(n) /\ UNCHANGED <<blob, k>>
                ELSE IF ~p.ok
                THEN raise(p) /\ blob' = blob \o n.val /\ UNCHANGED k
                ELSE IF ~s.ok
                THEN raise(s) /\ blob' = blob \o n.val \o p.val /\ UNCHANGED k
                ELSE /\ blob' = blob \o n.val \o p.val \o s.val
                     /\ k' = k + 1
                     /\ UNCHANGED <<pc, err>>
  /\ UNCHANGED <<config, heap, theme, data, i, sec, pkgdef, vsix, call>>

\* build_section after the loop: the length, the text; pkgdef_data appends it
SectionEnd ==
  /\ pc = "entries"
  /\ k > Len(sec)
  /\ blob' = patch_length(blob)
  /\ data' = Append(data, section_text(theme.guid, config.sections[i].name, blob'))
  /\ i' = i + 1
  /\ pc' = "sections"
  /\ UNCHANGED <<config, heap, theme, sec, k, err, pkgdef, vsix, call>>

\* pkgdef_data returns "\n".join(data).strip(); main writes extension.pkgdef
PkgdefReturn ==
  /\ pc = "sections"
  /\ i > Len(config.sections)
  /\ pkgdef' = strip(join(data, <<"\n">>), Whitespace)
  /\ pc' = "package"
  /\ UNCHANGED <<config, heap, theme, data, i, sec, k, blob, err, vsix, call>>

\* main: the other files, then the archive
WriteArchive ==
  /\ pc = "package"
  /\ vsix' = TRUE
  /\ pc' = "done"
  /\ UNCHANGED <<config, heap, theme, data, i, sec, k, blob, err, pkgdef, call>>

Next ==
  \/ MainTheme
  \/ PkgdefHead
  \/ SectionBegin
  \/ SectionEntry
  \/ SectionEnd
  \/ PkgdefReturn
  \/ WriteArchive

Spec == Init /\ [][Next]_vars

\* ------------------------------------------------------------------------
\* Single calls of parse_value, guid_parts and guid_str_to_bytes
\* ------------------------------------------------------------------------
ValueTexts ==
  {
    <<"F","F","8","0","0","0">>,
    <<"f","f","8","0","0","0","a","a">>,
    <<"1","2","a","B","c","D">>,
    <<"0","0","0","0","0","0">>,
    <<"F","F","F","F","F","F","F","F">>,
    <<"0","2","x","0","0","0","0","0","0","F","F">>,
    <<"f","f","x","D","E","A","D","B","E","E","F">>,
    <<"0","0","x","1","1","2","2","3","3","4","4">>,
    <<"0","1","x","A","A","B","B","C","C","D","D">>,
    <<"7","F","x","0","0","0","0","f","f","0","0">>,
    <<"1","2","3","4">>,
    <<>>,
    <<"f","f","8","0","0">>,
    <<"f","f","8","0","0","0","1">>,
    <<"g","g","0","0","0","0">>,
    <<"0","2","X","0","0","0","0","0","0","F","F">>,
    <<"0","2","x","0","0","0","0","0","0","F">>,
    <<"0","x","1","2","3","4">>,
    <<"+","f","0","0","0","0">>,
    <<"a"," ","b"," ","c","c">>,
    <<"-","f","0","0","0","0">>,
    <<"-","0","0","0","0","0">>,
    <<"f","_","0","0","0","0">>,
    <<"U+0661","2","f","f","0","0">>,
    <<"f","f"," ","0","0","0">>,
    <<"#","f","f","8","0","0">>,
    <<"+","1","+","2","+","3","+","4">>,
    <<"f","f","x","D","E","A","D","B","E","E","F","0">> }

\* each text bare and after '#', with and without whitespace around it
ValueInputs ==
  {None}
  \cup {l \o h \o t \o r : l \in {<<>>, <<" ">>}, h \in {<<>>, <<"#">>},
                         t \in ValueTexts, r \in {<<>>, <<"\n">>, <<" ", "\t">>}}

GuidTexts ==
  {
    <<"0","1","2","3","4","5","6","7","-","8","9","a","b","-","c","d","e","f","-","0","1","2","3","-","4","5","6","7","8","9","a","b","c","d","e","f">>,
    <<"F","E","D","C","B","A","9","8","-","7","6","5","4","-","3","2","1","0","-","0","1","2","3","-","4","5","6","7","8","9","A","B","C","D","E","F">>,
    <<"0","1","2","3","A","B","c","d","-","4","5","e","F","-","6","7","8","9","-","a","b","C","D","-","e","f","0","1","2","3","4","5","6","7","8","9">>,
    <<"0","1","2","3","4","5","6","7","-","8","9","a","b","-","c","d","e","f","-","0","1","2","3">>,
    <<"0","1","2","3","4","5","6","7","-","8","9","a","b","-","c","d","e","f","-","0","1","2","3","-","4","5","6","7","-","8","9","a","b","c","d","e","f">>,
    <<"0","1","2","3","4","5","6","-","8","9","a","b","-","c","d","e","f","-","0","1","2","3","-","4","5","6","7","8","9","a","b","c","d","e","f">>,
    <<"0","1","2","3","4","5","6","7","-","8","9","a","b","-","c","d","e","f","-","0","1","2","3","4","-","4","5","6","7","8","9","a","b","c","d","e","f">>,
    <<"0","1","2","3","4","5","6","7","-","8","9","a","g","-","c","d","e","f","-","0","1","2","3","-","4","5","6","7","8","9","a","b","c","d","e","f">>,
    <<>>,
    <<"0","1","2","3","4","5","6","7","-","8","9","a","b","-","c","d","e","f","-","0","1","2","3","-","4","5","6","7","8","9","a","b","c","d","e","U+0661">>,
    <<"0","1","2","3","4","5","6","7","-","8","9","a","b","-","c","d"," ","f","-","0","1","2","3","-","4","5","6","7","8","9","a","b","c","d","e","f">>,
    <<"0","1","2","3","4","5","6","7","8","9","a","b","c","d","e","f","0","1","2","3","4","5","6","7","8","9","a","b","c","d","e","f">> }

\* each text bare, in braces, in doubled, unbalanced and reversed braces,
\* with whitespace outside or inside the braces
GuidInputs ==
  {l \o b[1] \o t \o b[2] \o r :
     l \in {<<>>, <<" ">>}, r \in {<<>>, <<"\n">>}, t \in GuidTexts,
     b \in { <<<<>>, <<>>>>, <<<<"{">>, <<"}">>>>, <<<<"{","{">>, <<"}","}">>>>,
             <<<<"{">>, <<>>>>, <<<<"}">>, <<"{">>>>, <<<<"{"," ">>, <<" ","}">>>> }}

Called(fn, arg) == [fn |-> fn, arg |-> arg, ret |-> Return(<<>>)]

NoRun ==
  /\ config = NoConfig
  /\ heap = <<>>
  /\ Idle

InitValue ==
  /\ pc = "call"
  /\ \E v \in ValueInputs : call = Called("parse_value", v)
  /\ NoRun

CallParseValue ==
  /\ pc = "call"
  /\ call.fn = "parse_value"
  /\ call' = [call EXCEPT !.ret = parse_value(call.arg)]
  /\ pc' = "returned"
  /\ UNCHANGED <<config, heap, theme, data, i, sec, k, blob, err, pkgdef, vsix>>

SpecValue == InitValue /\ [][CallParseValue]_vars

InitGuid ==
  /\ pc = "call"
  /\ \E g \in GuidInputs, fn \in {"guid_parts", "guid_str_to_bytes"} :
       call = Called(fn, g)
  /\ NoRun

CallGuidParts ==
  /\ pc = "call"
  /\ call.fn = "guid_parts"
  /\ call' = [call EXCEPT !.ret = guid_parts(call.arg)]
  /\ pc' = "returned"
  /\ UNCHANGED <<config, heap, theme, data, i, sec, k, blob, err, pkgdef, vsix>>

CallGuidStrToBytes ==
  /\ pc = "call"
  /\ call.fn = "guid_str_to_bytes"
  /\ call' = [call EXCEPT !.ret = guid_str_to_bytes(call.arg)]
  /\ pc' = "returned"
  /\ UNCHANGED <<config, heap, theme, data, i, sec, k, blob, err, pkgdef, vsix>>

NextGuid == CallGuidParts \/ CallGuidStrToBytes

SpecGuid == InitGuid /\ [][NextGuid]_vars

\* ------------------------------------------------------------------------
\* The notions the properties are stated with
\* ------------------------------------------------------------------------
HexChars ==
  {"0","1","2","3","4","5","6","7","8","9",
   "a","b","c","d","e","f","A","B","C","D","E","F"}

NibbleTable ==
  << {"0"}, {"1"}, {"2"}, {"3"}, {"4"}, {"5"}, {"6"}, {"7"}, {"8"}, {"9"},
     {"a","A"}, {"b","B"}, {"c","C"}, {"d","D"}, {"e","E"}, {"f","F"} >>

Nibble(c) == (CHOOSE n \in 1..16 : c \in NibbleTable[n]) - 1

\* the byte written as the two hex digits at j and j + 1
ByteAt(t, j) == 16 * Nibble(t[j]) + Nibble(t[j + 1])

AllHex(t) == \A j \in 1..Len(t) : t[j] \in HexChars

Blank(c) == c \in {" ", "\t", "\n", "\r"}

\* the text without the whitespace around it
Trimmed(t) ==
  IF \A j \in 1..Len(t) : Blank(t[j]) THEN <<>>
  ELSE LET lo == CHOOSE j \in 1..Len(t) :
                   ~Blank(t[j]) /\ \A m \in 1..(j - 1) : Blank(t[m])
           hi == CHOOSE j \in 1..Len(t) :
                   ~Blank(t[j]) /\ \A m \in (j + 1)..Len(t) : Blank(t[m])
       IN SubSeq(t, lo, hi)

\* two hex digits, the letter x, eight hex digits
IsFlagMaskText(t) ==
  /\ Len(t) = 11
  /\ t[3] = "x"
  /\ AllHex(SubSeq(t, 1, 2))
  /\ AllHex(SubSeq(t, 4, 11))

\* the text after one optional leading '#'
Unhashed(t) == IF t # <<>> /\ t[1] = "#" THEN SubSeq(t, 2, Len(t)) ELSE t

IsColourText(t) == Len(Unhashed(t)) \in {6, 8} /\ AllHex(Unhashed(t))

\* the text without one enclosing pair of braces
Unbraced(t) ==
  IF Len(t) >= 2 /\ t[1] = "{" /\ t[Len(t)] = "}"
  THEN SubSeq(t, 2, Len(t) - 1) ELSE t

\* 8-4-4-4-12 hex digits with '-' between the groups
IsGuidBody(b) ==
  /\ Len(b) = 36
  /\ \A j \in 1..36 :
       IF j \in {9, 14, 19, 24} THEN b[j] = "-" ELSE b[j] \in HexChars

IsGuidText(g) == IsGuidBody(Unbraced(Trimmed(g)))

\* the 32 hex digits of a GUID text in their written order
GuidDigits(g) == SelectSeq(g, LAMBDA c : c \in HexChars)

\* g1 and g2, g3 least significant byte first, g4 and g5 as written
GuidBytes(g) ==
  LET d == GuidDigits(g)
  IN << ByteAt(d, 7), ByteAt(d, 5), ByteAt(d, 3), ByteAt(d, 1),
        ByteAt(d, 11), ByteAt(d, 9),
        ByteAt(d, 15), ByteAt(d, 13),
        ByteAt(d, 17), ByteAt(d, 19),
        ByteAt(d, 21), ByteAt(d, 23), ByteAt(d, 25),
        ByteAt(d, 27), ByteAt(d, 29), ByteAt(d, 31) >>

Returned(fn) == pc = "returned" /\ call.fn = fn

\* ------------------------------------------------------------------------
\* Properties of parse_value
\* ------------------------------------------------------------------------
\* C2: parse_value returns 00 for None, 01 R G B A for RRGGBBAA, 01 R G B FF
\* for RRGGBB (after trimming and one optional '#'), and flag m0 m1 m2 m3 with
\* the mask's last hex pair first for a flag+mask text with flag >= 2;
\* whitespace around the text and the case of the digits make no difference.
C2_ParseValueEncoding ==
  Returned("parse_value") =>
    LET t == Trimmed(call.arg)
        h == Unhashed(t)
    IN /\ call.arg = None => call.ret = Return(<<0>>)
       /\ call.arg # None /\ Len(h) = 8 /\ AllHex(h) =>
            call.ret = Return(<<1, ByteAt(h, 1), ByteAt(h, 3),
                                ByteAt(h, 5), ByteAt(h, 7)>>)
       /\ call.arg # None /\ Len(h) = 6 /\ AllHex(h) =>
            call.ret = Return(<<1, ByteAt(h, 1), ByteAt(h, 3),
                                ByteAt(h, 5), 255>>)
       /\ call.arg # None /\ IsFlagMaskText(t) /\ ByteAt(t, 1) >= 2 =>
            call.ret = Return(<<ByteAt(t, 1), ByteAt(t, 10), ByteAt(t, 8),
                                ByteAt(t, 6), ByteAt(t, 4)>>)

\* a padded flag+mask text was encoded, its mask bytes not all alike
C2_Witness ==
  /\ Returned("parse_value")
  /\ call.arg # None
  /\ Trimmed(call.arg) # call.arg
  /\ IsFlagMaskText(Trimmed(call.arg))
  /\ call.ret.ok
  /\ call.ret.val[2] # call.ret.val[5]

\* C3: a trimmed text of two hex digits, 'x' and eight hex digits is settled
\* as flag+mask: the reserved-flag error for flag 00 or 01, the flag+mask
\* bytes otherwise; never a colour error, never a first byte 00 or 01.
C3_FlagMaskDecidedFirst ==
  Returned("parse_value") /\ call.arg # None /\ IsFlagMaskText(Trimmed(call.arg)) =>
    LET flag == ByteAt(Trimmed(call.arg), 1)
    IN IF flag \in {0, 1}
       THEN /\ ~call.ret.ok
            /\ call.ret.val = <<>>
            /\ call.ret.err = "Generic flag+mask not allowed for 0x00/0x01"
       ELSE /\ call.ret.ok
            /\ Len(call.ret.val) = 5
            /\ call.ret.val[1] = flag
            /\ call.ret.val[1] \notin {0, 1}

\* a flag+mask text with flag 01 was refused
C3_Witness ==
  /\ Returned("parse_value")
  /\ call.arg # None
  /\ IsFlagMaskText(Trimmed(call.arg))
  /\ ByteAt(Trimmed(call.arg), 1) = 1
  /\ ~call.ret.ok

\* C4: a value that is neither None nor a flag+mask text fails with the
\* invalid-colour error unless, trimmed and without one leading '#', it is
\* exactly 6 or 8 hex digits.
C4_NonHexColourRejected ==
  Returned("parse_value") /\ call.arg # None
    /\ ~IsFlagMaskText(Trimmed(call.arg)) /\ ~IsColourText(Trimmed(call.arg)) =>
      /\ ~call.ret.ok
      /\ call.ret.err \in {"Color must be 6 or 8 hex digits", "Invalid color hex"}

\* ------------------------------------------------------------------------
\* Properties of guid_parts and guid_str_to_bytes
\* ------------------------------------------------------------------------
\* C5: for a valid GUID text guid_str_to_bytes returns 16 bytes: g1 as 32
\* bits and g2, g3 as 16 bits least significant byte first, g4 and g5 in
\* written order; braces and the case of the digits make no difference.
C5_GuidBytes ==
  Returned("guid_str_to_bytes") /\ IsGuidText(call.arg) =>
    /\ call.ret = Return(GuidBytes(call.arg))
    /\ Len(call.ret.val) = 16

\* a braced GUID text with capital digits was encoded
C5_Witness ==
  /\ Returned("guid_str_to_bytes")
  /\ IsGuidText(call.arg)
  /\ Trimmed(call.arg)[1] = "{"
  /\ \E j \in 1..Len(call.arg) : call.arg[j] \in {"A", "B", "C", "D", "E", "F"}
  /\ call.ret.ok
  /\ call.ret.val[1] # call.ret.val[4]

\* C6: guid_parts accepts a text only if, trimmed and without at most one
\* enclosing pair of braces, it is 8-4-4-4-12 hex digits; every other text
\* fails with 'Invalid GUID' quoting the input.
C6_GuidAcceptedOnlyIfValid ==
  Returned("guid_parts") =>
    IF IsGuidText(call.arg)
    THEN call.ret.ok
    ELSE /\ ~call.ret.ok
         /\ call.ret.err = "Invalid GUID"
         /\ call.ret.arg = call.arg

\* ------------------------------------------------------------------------
\* Properties of build_section, pkgdef_data and main
\* ------------------------------------------------------------------------
\* build_section has just returned the text of section i - 1
JustBuilt == pc = "sections" /\ i > 1

BuiltSection == config.sections[i - 1]

\* the entries of a mapping: its items other than the GUID key, in order
EntriesOf(items) == SelectSeq(items, LAMBDA it : it.key # GUID)

GuidOf(items) == items[CHOOSE j \in 1..Len(items) : items[j].key = GUID].value.items

BuiltEntries == EntriesOf(heap[BuiltSection.ref].items)

LE32(n) ==
  <<n % 256, (n \div 256) % 256, (n \div 65536) % 256, (n \div 16777216) % 256>>

\* the number the four bytes from position pos on stand for
LEValue(b, pos) ==
  b[pos] + 256 * b[pos + 1] + 65536 * b[pos + 2] + 16777216 * b[pos + 3]

NameBytes(name) == [j \in 1..Len(name) |-> Ord(name[j])]

\* the bytes an accepted value stands for
ValueBytes(v) ==
  LET t == Trimmed(v)
      h == Unhashed(t)
  IN IF v = None THEN <<0>>
     ELSE IF IsFlagMaskText(t)
     THEN <<ByteAt(t, 1), ByteAt(t, 10), ByteAt(t, 8), ByteAt(t, 6), ByteAt(t, 4)>>
     ELSE <<1, ByteAt(h, 1), ByteAt(h, 3), ByteAt(h, 5),
            IF Len(h) = 8 THEN ByteAt(h, 7) ELSE 255>>

RECURSIVE EntryBytes(_)
EntryBytes(entries) ==
  IF entries = <<>> THEN <<>>
  ELSE LET e == Head(entries)
       IN LE32(Len(e.key)) \o NameBytes(e.key)
          \o ValueBytes(e.value.items[1]) \o ValueBytes(e.value.items[2])
          \o EntryBytes(Tail(entries))

\* C1: the blob of an accepted section is its own total length, 11, 1 (each
\* 4 bytes little-endian), the 16 bytes of the section GUID, the number n of
\* keys other than GUID, then for each entry in insertion order the length
\* of the name, the name's ASCII bytes, the primary and the secondary value;
\* the GUID key is no entry.
C1_BlobLayout ==
  JustBuilt =>
    /\ blob = LE32(Len(blob)) \o LE32(11) \o LE32(1)
              \o GuidBytes(GuidOf(heap[BuiltSection.ref].items))
              \o LE32(Len(heap[BuiltSection.ref].items) - 1)
              \o EntryBytes(BuiltEntries)
    /\ LEValue(blob, 1) = Len(blob)
    /\ LEValue(blob, 29) = Len(BuiltEntries)

\* a section of two entries whose GUID key was inserted last was built
C1_Witness ==
  /\ JustBuilt
  /\ Len(BuiltEntries) = 2
  /\ heap[BuiltSection.ref].items[3].key = GUID
  /\ Len(blob) > 28

\* every check of the entry loop passes on the entry
EntryOk(e) ==
  /\ e.value.list
  /\ Len(e.value.items) = 2
  /\ \A c \in 1..Len(e.key) : IsAscii(e.key[c])
  /\ parse_value(e.value.items[1]).ok
  /\ parse_value(e.value.items[2]).ok

\* every check of build_section passes on section j
SectionOk(j) ==
  LET o == heap[config.sections[j].ref]
  IN /\ o.dict
     /\ has_key(o.items, GUID)
     /\ guid_parts(GuidOf(o.items)).ok
     /\ \A m \in 1..Len(EntriesOf(o.items)) : EntryOk(EntriesOf(o.items)[m])

Malformed(e) == ~(e.value.list /\ Len(e.value.items) = 2)

\* the fragments pkgdef_data holds: data after the five lines of the theme
Fragments == IF Len(data) > 5 THEN SubSeq(data, 6, Len(data)) ELSE <<>>

ThemeGuidText == Unbraced(Trimmed(config.guid))

HeaderLine ==
  <<"[","$","R","o","o","t","K","e","y","$","\\","T","h","e","m","e","s","\\","{">> \o ThemeGuidText \o <<"}","\\">> \o BuiltSection.name \o <<"]">>

DataPrefix == <<"\"","D","a","t","a","\"","=","h","e","x",":">>

\* the positions of the line breaks of a text
LineBreaks(text) == {j \in 1..Len(text) : text[j] = "\n"}

LowerDigits == <<"0","1","2","3","4","5","6","7","8","9","a","b","c","d","e","f">>

\* the line is "Data"=hex: and the bytes of the blob, each as two lowercase
\* hex digits, a comma between two of them and nothing else
DataLineOk(line) ==
  LET at == Len(DataPrefix)
  IN /\ SubSeq(line, 1, at) = DataPrefix
     /\ Len(line) = at + 3 * Len(blob) - 1
     /\ Len(blob) = LEValue(blob, 1)
     /\ \A j \in 1..Len(blob) :
          /\ line[at + 3 * j - 2] = LowerDigits[(blob[j] \div 16) + 1]
          /\ line[at + 3 * j - 1] = LowerDigits[(blob[j] % 16) + 1]
          /\ j < Len(blob) => line[at + 3 * j] = ","

DataLineOf(text) ==
  LET last == CHOOSE j \in LineBreaks(text) : \A m \in LineBreaks(text) : m <= j
  IN SubSeq(text, last + 1, Len(text))

AliasSameData ==
  \A a, b \in 1..Len(Fragments) :
    config.sections[a].ref = config.sections[b].ref =>
      DataLineOf(Fragments[a]) = DataLineOf(Fragments[b])

\* C9: build_section leaves the caller's mapping as it was, GUID key
\* included, and building the same mapping again gives the same bytes.
C9_Pure == [][heap' = heap /\ AliasSameData']_vars

\* two sections that are one and the same mapping object were both built
C9_Witness ==
  /\ Len(Fragments) >= 2
  /\ config.sections[1].ref = config.sections[2].ref
  /\ has_key(heap[config.sections[1].ref].items, GUID)
  /\ Len(heap[config.sections[1].ref].items) >= 2

\* reading n entries from position pos: a name by its length prefix, then
\* two values, each one byte when its first byte is 0 and five otherwise
RECURSIVE Decode(_, _, _)
Decode(b, pos, n) ==
  IF n = 0 THEN [ok |-> TRUE, names |-> <<>>, values |-> <<>>, next |-> pos]
  ELSE IF pos + 3 > Len(b) \/ pos + 3 + LEValue(b, pos) + 2 > Len(b)
  THEN [ok |-> FALSE, names |-> <<>>, values |-> <<>>, next |-> pos]
  ELSE LET len  == LEValue(b, pos)
           p    == pos + 4 + len
           plen == IF b[p] = 0 THEN 1 ELSE 5
           s    == p + plen
           slen == IF s <= Len(b) /\ b[s] = 0 THEN 1 ELSE 5
       IN IF s + slen - 1 > Len(b)
          THEN [ok |-> FALSE, names |-> <<>>, values |-> <<>>, next |-> pos]
          ELSE LET rest == Decode(b, s + slen, n - 1)
               IN [ok |-> rest.ok,
                   names |-> <<SubSeq(b, pos + 4, p - 1)>> \o rest.names,
                   values |-> <<SubSeq(b, p, s - 1), SubSeq(b, s, s + slen - 1)>>
                              \o rest.values,
                   next |-> rest.next]

\* the form the first byte of an encoded value tells
FormOf(bytes) ==
  IF bytes[1] = 0 THEN "Empty" ELSE IF bytes[1] = 1 THEN "Color" ELSE "FlagMask"

FormOfText(v) ==
  IF v = None THEN "Empty"
  ELSE IF IsFlagMaskText(Trimmed(v)) THEN "FlagMask" ELSE "Color"

\* C10: a blob decodes unambiguously: read from offset 28 (the count, then
\* the entries by the length prefixes and the first byte of each value), it
\* yields exactly the counted entries and ends at the offset the length
\* field gives, giving back the
\* section GUID, the names in order and each value's form and bytes.
C10_Decodable ==
  JustBuilt =>
    LET d == Decode(blob, 33, LEValue(blob, 29))
    IN /\ d.ok
       /\ d.next = LEValue(blob, 1) + 1
       /\ SubSeq(blob, 13, 28) = GuidBytes(GuidOf(heap[BuiltSection.ref].items))
       /\ Len(d.names) = Len(BuiltEntries)
       /\ \A m \in 1..Len(BuiltEntries) :
            /\ d.names[m] = NameBytes(BuiltEntries[m].key)
            /\ \A q \in 1..2 :
                 /\ d.values[2 * (m - 1) + q] = ValueBytes(BuiltEntries[m].value.items[q])
                 /\ Len(d.values[2 * (m - 1) + q]) \in {1, 5}
                 /\ FormOf(d.values[2 * (m - 1) + q])
                      = FormOfText(BuiltEntries[m].value.items[q])

\* a section of two entries was built that holds an Empty value in front of
\* a FlagMask value
C10_Witness ==
  /\ JustBuilt
  /\ Len(BuiltEntries) = 2
  /\ \E m \in 1..2 :
       /\ BuiltEntries[m].value.items[1] = None
       /\ BuiltEntries[m].value.items[2] # None
       /\ IsFlagMaskText(Trimmed(BuiltEntries[m].value.items[2]))

====
